---- MODULE Spec2Model ----
(***************************************************************************)
(* State-machine model of the SBUS streaming synchronizer                  *)
(* (src/src/streaming.rs: StreamingParser, StreamingIterator) together     *)
(* with the frame codec it calls (SbusPacket::from_array).                 *)
(***************************************************************************)
EXTENDS Integers, Sequences, FiniteSets, TLC

\* ------------------------------------------------------------------------
\* Protocol constants
\* ------------------------------------------------------------------------
SBUS_FRAME_LENGTH == 25
SBUS_HEADER == 15
SBUS_FOOTER == 0
CHANNEL_COUNT == 16
\* largest channel value (11 bits)
CHANNEL_MAX == 2047
\* index of the flag byte inside a frame
FLAG_INDEX == 23
\* reserved (must-be-zero) bits of the flag byte are those >= FLAG_RESERVED
FLAG_RESERVED == 16
\* SBusPacketParser: mask of the reserved flag bits, head and foot bytes,
\* bytes in a message, capacity of the buffer
FLAG_MASK == 240
HEAD_BYTE == 15
FOOT_BYTE == 0
PACKET_SIZE == 25
MAX_PACKET_SIZE == 50
\* a u32 statistics counter is kept as two 16-bit halves, [hi, lo], of value
\* hi * U16_RANGE + lo
U16_RANGE == 65536

\* ------------------------------------------------------------------------
\* Bounds of the model
\* ------------------------------------------------------------------------
\* segments (frames, partial frames, noise bytes) fed in one run of Spec
MaxSegs == 3
\* reset() calls in one run of Spec
MaxResets == 1
\* segments of the input that SpecIter cuts into chunks
MaxIterSegs == 2
\* segments (noise runs, valid frames) fed in one run of SpecNoise
MaxNoiseSegs == 3
\* SpecRecover: segments fed before the valid frames, and valid frames fed
MaxPrefix == 2
MaxClean == 2
\* segments fed in one run of SpecCalls
MaxCallSegs == 2
\* segments fed in one run of SpecReset
MaxResetSegs == 3
\* SpecLegacy: push_bytes calls and try_parse calls in one run
MaxLegacySegs == 3
MaxTryParse == 3
\* segments fed in one run of SpecLoss
MaxLossSegs == 3
\* SpecStuck: push_bytes calls and push_byte calls in one run
MaxStuckSegs == 3
MaxStuckBytes == 1
\* SpecSaturate: segments fed in one run, and how far below u32::MAX the
\* lowest counter starts
MaxSatSegs == 2
NearMax == 30

\* ------------------------------------------------------------------------
\* Values
\* ------------------------------------------------------------------------
BufIdx == 0 .. (SBUS_FRAME_LENGTH - 1)

Min(S) == CHOOSE x \in S : \A y \in S : x <= y

\* the u32 of value n
U32(n) == [hi |-> n \div U16_RANGE, lo |-> n % U16_RANGE]
\* u32::MAX
U32_MAX == [hi |-> U16_RANGE - 1, lo |-> U16_RANGE - 1]
\* the exact sum a + n (hi leaves the 16-bit range when it exceeds u32::MAX)
Plus(a, n) ==
    LET s == a.lo + n
    IN  [hi |-> a.hi + (s \div U16_RANGE), lo |-> s % U16_RANGE]
\* the value of a u32 below 2^31, as an integer
Value(a) == a.hi * U16_RANGE + a.lo
\* u32 <= u32
Leq(a, b) == a.hi < b.hi \/ (a.hi = b.hi /\ a.lo <= b.lo)
\* u32::MAX - d
BelowMax(d) == [hi |-> U16_RANGE - 1, lo |-> U16_RANGE - 1 - d]
\* u32::wrapping_add
SaturatingAdd_Wrapping(a, n) ==
    LET s == Plus(a, n)
    IN  [hi |-> s.hi % U16_RANGE, lo |-> s.lo]
\* u32::saturating_add
SaturatingAdd(a, n) ==
    LET s == Plus(a, n)
    IN  IF s.hi > U16_RANGE - 1 THEN U32_MAX ELSE s

NoPacket == [channels |-> << >>, d1 |-> FALSE, d2 |-> FALSE,
             frame_lost |-> FALSE, failsafe |-> FALSE]
NoError == [name |-> "", byte |-> 0]

\* Result<Option<SbusPacket>, SbusError>
RetNone == [kind |-> "None", packet |-> NoPacket, err |-> NoError]
RetPacket(pk) == [kind |-> "Packet", packet |-> pk, err |-> NoError]
RetErr(e) == [kind |-> "Err", packet |-> NoPacket, err |-> e]

\* ------------------------------------------------------------------------
\* Frame codec (unpack side)
\* ------------------------------------------------------------------------
\* a flag test without the mask: some bit at or above n is set
IsFlagSet_NoMask(flag_byte, n) == flag_byte \div (2 ^ n) # 0

\* bit n of the flag byte
IsFlagSet(flag_byte, n) == (flag_byte \div (2 ^ n)) % 2 = 1

\* a channel read from two bytes only: the bits a channel has in a third
\* byte are lost
Channel_TwoBytes(buf, i) ==
    LET bit  == 11 * i
        lo   == 1 + (bit \div 8)
        sh   == bit % 8
        word == buf[lo] + 256 * buf[lo + 1]
    IN  (word \div (2 ^ sh)) % 2048

\* channel i: bits [11*i, 11*i + 10] of the little-endian bit stream that
\* starts at byte 1 of the frame
Channel(buf, i) ==
    LET bit  == 11 * i
        lo   == 1 + (bit \div 8)
        sh   == bit % 8
        b2   == IF lo + 2 <= 22 THEN buf[lo + 2] ELSE 0
        word == buf[lo] + 256 * buf[lo + 1] + 65536 * b2
    IN  (word \div (2 ^ sh)) % 2048

UnpackChannels(buf) == [i \in 1 .. CHANNEL_COUNT |-> Channel(buf, i - 1)]

\* SbusPacket::from_array: header, footer and reserved flag bits are checked,
\* then the channels and the four flags are extracted
FromArray(buf) ==
    IF buf[0] # SBUS_HEADER
    THEN [ok |-> FALSE, packet |-> NoPacket,
          err |-> [name |-> "InvalidHeader", byte |-> buf[0]]]
    ELSE IF buf[SBUS_FRAME_LENGTH - 1] # SBUS_FOOTER
    THEN [ok |-> FALSE, packet |-> NoPacket,
          err |-> [name |-> "InvalidFooter", byte |-> buf[SBUS_FRAME_LENGTH - 1]]]
    ELSE IF buf[FLAG_INDEX] \div FLAG_RESERVED # 0
    THEN [ok |-> FALSE, packet |-> NoPacket,
          err |-> [name |-> "InvalidFooter", byte |-> buf[FLAG_INDEX]]]
    ELSE [ok |-> TRUE,
          packet |-> [channels   |-> UnpackChannels(buf),
                      d1         |-> IsFlagSet(buf[FLAG_INDEX], 0),
                      d2         |-> IsFlagSet(buf[FLAG_INDEX], 1),
                      frame_lost |-> IsFlagSet(buf[FLAG_INDEX], 2),
                      failsafe   |-> IsFlagSet(buf[FLAG_INDEX], 3)],
          err |-> NoError]

\* ------------------------------------------------------------------------
\* Frame codec (pack side)
\* ------------------------------------------------------------------------
\* bit j of the 176-bit stream: bit (j mod 11) of channel (j div 11), the
\* channel value masked to 11 bits
StreamBit(channels, j) ==
    ((channels[(j \div 11) + 1] % (CHANNEL_MAX + 1)) \div (2 ^ (j % 11))) % 2

\* bits t .. 7 of byte n (1 .. 22) of the frame, as a value
RECURSIVE PackBits(_, _, _)
PackBits(channels, n, t) ==
    IF t > 7 THEN 0
    ELSE StreamBit(channels, 8 * (n - 1) + t) * (2 ^ t)
         + PackBits(channels, n, t + 1)

\* pack: header at index 0, the channels in bytes 1 .. 22, the flag byte at
\* index 23, footer at index 24 (as a 1-based sequence: byte i is element
\* i + 1)
Pack(channels, flags) ==
    [n \in 1 .. SBUS_FRAME_LENGTH |->
        IF n = 1 THEN SBUS_HEADER
        ELSE IF n = SBUS_FRAME_LENGTH THEN SBUS_FOOTER
        ELSE IF n = FLAG_INDEX + 1 THEN flags
        ELSE PackBits(channels, n - 1, 0)]

\* ------------------------------------------------------------------------
\* StreamingParser
\* ------------------------------------------------------------------------
NewStats == [frames_decoded |-> U32(0), sync_losses |-> U32(0),
             bytes_discarded |-> U32(0)]
NewBuffer == [i \in BufIdx |-> 0]

\* a shift that moves nothing: the kept bytes stay where they were
ShiftLoop_NoShift(buf, i, j, remaining) == buf

\* the inner loop of resync: for j in 0..remaining { buffer[j] = buffer[i + j] }
RECURSIVE ShiftLoop(_, _, _, _)
ShiftLoop(buf, i, j, remaining) ==
    IF j >= remaining THEN buf
    ELSE ShiftLoop([buf EXCEPT ![j] = buf[i + j]], i, j + 1, remaining)

\* a scan that starts at index 0, the header of the rejected span
ScanRange_FromZero(p) == 0 .. (p - 1)

\* the indices the scan of resync visits: for i in 1..self.pos
ScanRange(p) == 1 .. (p - 1)

\* Resync that keeps the failed header when it finds no other
Resync_KeepFirst(buf, p, st) ==
    LET st1 == [st EXCEPT !.sync_losses = SaturatingAdd(@, 1)]
        hits == {i \in ScanRange(p) : buf[i] = SBUS_HEADER}
    IN  IF hits # {}
        THEN LET i == Min(hits)
                 remaining == p - i
             IN  [buffer |-> ShiftLoop(buf, i, 0, remaining),
                  pos    |-> remaining,
                  stats  |-> [st1 EXCEPT !.bytes_discarded = SaturatingAdd(@, i)]]
        ELSE [buffer |-> buf,
              pos    |-> 1,
              stats  |-> [st1 EXCEPT !.bytes_discarded = SaturatingAdd(@, p - 1)]]

\* Resync that takes the last header value of the buffer, not the first
Resync_LastHeader(buf, p, st) ==
    LET st1 == [st EXCEPT !.sync_losses = SaturatingAdd(@, 1)]
        hits == {i \in ScanRange(p) : buf[i] = SBUS_HEADER}
    IN  IF hits # {}
        THEN LET i == CHOOSE x \in hits : \A y \in hits : y <= x
                 remaining == p - i
             IN  [buffer |-> ShiftLoop(buf, i, 0, remaining),
                  pos    |-> remaining,
                  stats  |-> [st1 EXCEPT !.bytes_discarded = SaturatingAdd(@, i)]]
        ELSE [buffer |-> buf,
              pos    |-> 0,
              stats  |-> [st1 EXCEPT !.bytes_discarded = SaturatingAdd(@, p)]]

\* Resync that shifts from the byte after the header it found
Resync_OffByOne(buf, p, st) ==
    LET st1 == [st EXCEPT !.sync_losses = SaturatingAdd(@, 1)]
        hits == {i \in ScanRange(p) : buf[i] = SBUS_HEADER}
    IN  IF hits # {}
        THEN LET i == Min(hits) + 1
                 remaining == p - i
             IN  [buffer |-> ShiftLoop(buf, i, 0, remaining),
                  pos    |-> remaining,
                  stats  |-> [st1 EXCEPT !.bytes_discarded = SaturatingAdd(@, i)]]
        ELSE [buffer |-> buf,
              pos    |-> 0,
              stats  |-> [st1 EXCEPT !.bytes_discarded = SaturatingAdd(@, p)]]

\* resync(): count the loss, look for the next header in the buffer and
\* shift it to the front, or discard everything
Resync(buf, p, st) ==
    LET st1 == [st EXCEPT !.sync_losses = SaturatingAdd(@, 1)]
        hits == {i \in ScanRange(p) : buf[i] = SBUS_HEADER}
    IN  IF hits # {}
        THEN LET i == Min(hits)
                 remaining == p - i
             IN  [buffer |-> ShiftLoop(buf, i, 0, remaining),
                  pos    |-> remaining,
                  stats  |-> [st1 EXCEPT !.bytes_discarded = SaturatingAdd(@, i)]]
        ELSE [buffer |-> buf,
              pos    |-> 0,
              stats  |-> [st1 EXCEPT !.bytes_discarded = SaturatingAdd(@, p)]]

\* SeekHeader without the header test: any byte starts an accumulation
SeekHeader_NoGate(buf, st, byte) ==
    [buffer |-> [buf EXCEPT ![0] = byte], pos |-> 1, stats |-> st,
     ret |-> RetNone]

\* SeekHeader that does not count the discarded byte
SeekHeader_NoCount(buf, st, byte) ==
    IF byte = SBUS_HEADER
    THEN [buffer |-> [buf EXCEPT ![0] = byte], pos |-> 1, stats |-> st,
          ret |-> RetNone]
    ELSE [buffer |-> buf, pos |-> 0, stats |-> st, ret |-> RetNone]

\* push_byte at pos == 0: only a header starts an accumulation
SeekHeader(buf, st, byte) ==
    IF byte = SBUS_HEADER
    THEN [buffer |-> [buf EXCEPT ![0] = byte], pos |-> 1, stats |-> st,
          ret |-> RetNone]
    ELSE [buffer |-> buf, pos |-> 0,
          stats |-> [st EXCEPT !.bytes_discarded = SaturatingAdd(@, 1)],
          ret |-> RetNone]

\* CompleteFrame that forgets to count the decoded frame
CompleteFrame_NoCount(buf, p, st) ==
    IF buf[SBUS_FRAME_LENGTH - 1] = SBUS_FOOTER
    THEN LET r == FromArray(buf)
         IN  IF r.ok
             THEN [buffer |-> buf, pos |-> 0, stats |-> st,
                   ret |-> RetPacket(r.packet)]
             ELSE LET rs == Resync(buf, p, st)
                  IN  [buffer |-> rs.buffer, pos |-> rs.pos, stats |-> rs.stats,
                       ret |-> RetErr(r.err)]
    ELSE LET rs == Resync(buf, p, st)
         IN  [buffer |-> rs.buffer, pos |-> rs.pos, stats |-> rs.stats,
              ret |-> RetNone]

\* CompleteFrame with the footer mismatch surfaced as an error
CompleteFrame_FooterErr(buf, p, st) ==
    LET r == FromArray(buf)
    IN  IF r.ok
        THEN [buffer |-> buf, pos |-> 0,
              stats |-> [st EXCEPT !.frames_decoded = SaturatingAdd(@, 1)],
              ret |-> RetPacket(r.packet)]
        ELSE LET rs == Resync(buf, p, st)
             IN  [buffer |-> rs.buffer, pos |-> rs.pos, stats |-> rs.stats,
                  ret |-> RetErr(r.err)]

\* CompleteFrame that returns the codec's error without resynchronizing: the
\* rejected span is dropped whole and no loss is counted
CompleteFrame_ErrNoResync(buf, p, st) ==
    IF buf[SBUS_FRAME_LENGTH - 1] = SBUS_FOOTER
    THEN LET r == FromArray(buf)
         IN  IF r.ok
             THEN [buffer |-> buf, pos |-> 0,
                   stats |-> [st EXCEPT !.frames_decoded = SaturatingAdd(@, 1)],
                   ret |-> RetPacket(r.packet)]
             ELSE [buffer |-> buf, pos |-> 0, stats |-> st, ret |-> RetErr(r.err)]
    ELSE LET rs == Resync(buf, p, st)
         IN  [buffer |-> rs.buffer, pos |-> rs.pos, stats |-> rs.stats,
              ret |-> RetNone]

\* push_byte when the buffer has just been filled: footer check, decode,
\* resync on failure
CompleteFrame(buf, p, st) ==
    IF buf[SBUS_FRAME_LENGTH - 1] = SBUS_FOOTER
    THEN LET r == FromArray(buf)
         IN  IF r.ok
             THEN [buffer |-> buf, pos |-> 0,
                   stats |-> [st EXCEPT !.frames_decoded = SaturatingAdd(@, 1)],
                   ret |-> RetPacket(r.packet)]
             ELSE LET rs == Resync(buf, p, st)
                  IN  [buffer |-> rs.buffer, pos |-> rs.pos, stats |-> rs.stats,
                       ret |-> RetErr(r.err)]
    ELSE LET rs == Resync(buf, p, st)
         IN  [buffer |-> rs.buffer, pos |-> rs.pos, stats |-> rs.stats,
              ret |-> RetNone]

\* push_byte(byte)
PushByte(buf, p, st, byte) ==
    IF p = 0
    THEN SeekHeader(buf, st, byte)
    ELSE LET b1 == [buf EXCEPT ![p] = byte]
             p1 == p + 1
         IN  IF p1 = SBUS_FRAME_LENGTH
             THEN CompleteFrame(b1, p1, st)
             ELSE [buffer |-> b1, pos |-> p1, stats |-> st, ret |-> RetNone]

\* a reset() that leaves the cursor where it is
Reset_KeepCursor(p) == p

\* reset()
Reset(p) == 0

\* StreamingIterator::next with a loop that stops at the first error: the
\* rest of the chunk is dropped
RECURSIVE IterNext_StopOnErr(_, _, _, _, _)
IterNext_StopOnErr(buf, p, st, data, index) ==
    IF index < Len(data)
    THEN LET r == PushByte(buf, p, st, data[index + 1])
         IN  IF r.ret.kind = "Packet"
             THEN [buffer |-> r.buffer, pos |-> r.pos, stats |-> r.stats,
                   index |-> index + 1, item |-> r.ret]
             ELSE IF r.ret.kind = "Err"
             THEN [buffer |-> r.buffer, pos |-> r.pos, stats |-> r.stats,
                   index |-> Len(data), item |-> r.ret]
             ELSE IterNext_StopOnErr(r.buffer, r.pos, r.stats, data, index + 1)
    ELSE [buffer |-> buf, pos |-> p, stats |-> st, index |-> index,
          item |-> RetNone]

\* StreamingIterator::next that does not count the byte whose push returned
\* an item: the following call pushes that byte again
RECURSIVE IterNext_RepushOnItem(_, _, _, _, _)
IterNext_RepushOnItem(buf, p, st, data, index) ==
    IF index < Len(data)
    THEN LET r == PushByte(buf, p, st, data[index + 1])
         IN  IF r.ret.kind # "None"
             THEN [buffer |-> r.buffer, pos |-> r.pos, stats |-> r.stats,
                   index |-> index, item |-> r.ret]
             ELSE IterNext_RepushOnItem(r.buffer, r.pos, r.stats, data, index + 1)
    ELSE [buffer |-> buf, pos |-> p, stats |-> st, index |-> index,
          item |-> RetNone]

\* StreamingIterator::next that reads one byte ahead: after the byte whose
\* push returned an item it pushes the following byte of the chunk too
RECURSIVE IterNext_ReadAhead(_, _, _, _, _)
IterNext_ReadAhead(buf, p, st, data, index) ==
    IF index < Len(data)
    THEN LET r == PushByte(buf, p, st, data[index + 1])
         IN  IF r.ret.kind # "None"
             THEN IF index + 1 < Len(data)
                  THEN LET a == PushByte(r.buffer, r.pos, r.stats, data[index + 2])
                       IN  [buffer |-> a.buffer, pos |-> a.pos, stats |-> a.stats,
                            index |-> index + 1, item |-> r.ret]
                  ELSE [buffer |-> r.buffer, pos |-> r.pos, stats |-> r.stats,
                        index |-> index + 1, item |-> r.ret]
             ELSE IterNext_ReadAhead(r.buffer, r.pos, r.stats, data, index + 1)
    ELSE [buffer |-> buf, pos |-> p, stats |-> st, index |-> index,
          item |-> RetNone]

\* StreamingIterator::next: push the bytes of the chunk from `index` on,
\* until one yields a packet or an error (the item returned) or the chunk
\* ends (item None)
RECURSIVE IterNext(_, _, _, _, _)
IterNext(buf, p, st, data, index) ==
    IF index < Len(data)
    THEN LET r == PushByte(buf, p, st, data[index + 1])
         IN  IF r.ret.kind # "None"
             THEN [buffer |-> r.buffer, pos |-> r.pos, stats |-> r.stats,
                   index |-> index + 1, item |-> r.ret]
             ELSE IterNext(r.buffer, r.pos, r.stats, data, index + 1)
    ELSE [buffer |-> buf, pos |-> p, stats |-> st, index |-> index,
          item |-> RetNone]

\* ------------------------------------------------------------------------
\* SBusPacketParser (the parser of lib.rs, a queue of at most 50 bytes)
\* ------------------------------------------------------------------------
\* a | b and a & b on unsigned values
RECURSIVE BitOr(_, _)
BitOr(a, b) ==
    IF a = 0 THEN b
    ELSE IF b = 0 THEN a
    ELSE (IF a % 2 = 1 \/ b % 2 = 1 THEN 1 ELSE 0)
         + 2 * BitOr(a \div 2, b \div 2)
RECURSIVE BitAnd(_, _)
BitAnd(a, b) ==
    IF a = 0 \/ b = 0 THEN 0
    ELSE (IF a % 2 = 1 /\ b % 2 = 1 THEN 1 ELSE 0)
         + 2 * BitAnd(a \div 2, b \div 2)
\* x << n and x >> n on u16
Shl(x, n) == (x * (2 ^ n)) % U16_RANGE
Shr(x, n) == x \div (2 ^ n)

\* push_byte: push_back on the Deque, whose error when full is dropped
LegacyPushByte(lb, byte) ==
    IF Len(lb) < MAX_PACKET_SIZE THEN Append(lb, byte) ELSE lb
\* push_bytes
RECURSIVE LegacyPushBytes(_, _)
LegacyPushBytes(lb, bytes) ==
    IF bytes = << >> THEN lb
    ELSE LegacyPushBytes(LegacyPushByte(lb, Head(bytes)), Tail(bytes))

\* a try_parse that pops nothing before it tests the frame
PopUntilHead_Never(lb) == lb

\* try_parse, first loop: pop bytes until the head byte is first, while more
\* than PACKET_SIZE bytes are held
RECURSIVE PopUntilHead(_)
PopUntilHead(lb) ==
    IF lb # << >> /\ lb[1] # HEAD_BYTE /\ Len(lb) > PACKET_SIZE
    THEN PopUntilHead(Tail(lb))
    ELSE lb

\* a _valid_frame that looks at the head byte only
ValidFrame_HeadOnly(lb) == Len(lb) >= PACKET_SIZE /\ lb[1] = HEAD_BYTE

\* _valid_frame
ValidFrame(lb) ==
    /\ Len(lb) >= PACKET_SIZE
    /\ lb[1] = HEAD_BYTE
    /\ lb[PACKET_SIZE] = FOOT_BYTE
    /\ BitAnd(lb[PACKET_SIZE - 1], FLAG_MASK) = 0

\* try_parse, the channels: ch[n] and ch[n + 8] are taken the same way from
\* data[1 ..] and data[12 ..]; d is data as a 1-based sequence
LegacyChannel(d, n) ==
    LET o == IF n >= 8 THEN 11 ELSE 0
        D(i) == d[o + i + 1]
        m == n % 8
        v == CASE m = 0 -> BitOr(D(1), Shl(D(2), 8))
               [] m = 1 -> BitOr(Shr(D(2), 3), Shl(D(3), 5))
               [] m = 2 -> BitOr(BitOr(Shr(D(3), 6), Shl(D(4), 2)), Shl(D(5), 10))
               [] m = 3 -> BitOr(Shr(D(5), 1), Shl(D(6), 7))
               [] m = 4 -> BitOr(Shr(D(6), 4), Shl(D(7), 4))
               [] m = 5 -> BitOr(BitOr(Shr(D(7), 7), Shl(D(8), 1)), Shl(D(9), 9))
               [] m = 6 -> BitOr(Shr(D(9), 2), Shl(D(10), 6))
               [] m = 7 -> BitOr(Shr(D(10), 5), Shl(D(11), 3))
    IN  BitAnd(CHANNEL_MAX, v)

\* try_parse
TryParse(lb) ==
    LET b == PopUntilHead(lb)
    IN  IF ~ValidFrame(b)
        THEN [buffer |-> b, ret |-> RetNone]
        ELSE LET data == SubSeq(b, 1, PACKET_SIZE - 1)
                 flag_byte == data[PACKET_SIZE - 1]
             IN  [buffer |-> SubSeq(b, PACKET_SIZE, Len(b)),
                  ret |-> RetPacket(
                     [channels   |-> [i \in 1 .. CHANNEL_COUNT |->
                                         LegacyChannel(data, i - 1)],
                      d1         |-> IsFlagSet(flag_byte, 0),
                      d2         |-> IsFlagSet(flag_byte, 1),
                      frame_lost |-> IsFlagSet(flag_byte, 2),
                      failsafe   |-> IsFlagSet(flag_byte, 3)])]

\* ------------------------------------------------------------------------
\* Input: frames, partial frames and noise
\* ------------------------------------------------------------------------
\* a 25-byte span that starts with the header: payload bytes 1..22 hold
\* `fill`, except those at the indices `hs`, which hold the header value;
\* byte 23 is `flag` and byte 24 is `foot` (sequences are 1-based: byte i of
\* the frame is element i + 1)
Pattern(fill, hs, flag, foot) ==
    [n \in 1 .. SBUS_FRAME_LENGTH |->
        IF n = 1 THEN SBUS_HEADER
        ELSE IF n = SBUS_FRAME_LENGTH THEN foot
        ELSE IF n = FLAG_INDEX + 1 THEN flag
        ELSE IF (n - 1) \in hs THEN SBUS_HEADER
        ELSE fill]

\* a valid frame: header, footer, reserved flag bits clear
IsValidFrame(s) ==
    /\ Len(s) = SBUS_FRAME_LENGTH
    /\ s[1] = SBUS_HEADER
    /\ s[SBUS_FRAME_LENGTH] = SBUS_FOOTER
    /\ s[FLAG_INDEX + 1] \div FLAG_RESERVED = 0

\* the frame as the parser's buffer holds it (0-based)
AsBuffer(s) == [i \in BufIdx |-> s[i + 1]]

\* the packet a valid frame decodes to
Decode(s) == FromArray(AsBuffer(s)).packet

\* frame[k..25]
FrameTail(s, k) == SubSeq(s, k + 1, Len(s))
\* frame[0..k]
FrameHead(s, k) == SubSeq(s, 1, k)

\* the segments the caller of Spec feeds
GenFrames ==
    { Pattern(0, {}, 0, 0),          \* valid, all channels 0
      Pattern(255, {}, 15, 0),       \* valid, all flags set
      Pattern(0, {12}, 0, 0),        \* valid, a header value in the payload
      Pattern(255, {7, 12}, 0, 255), \* footer corrupted, header values inside
      Pattern(0, {}, 0, 15),         \* footer replaced by the header value
      Pattern(0, {5}, 255, 0) }      \* reserved flag bits set
GenSegments ==
    GenFrames
    \cup { FrameTail(Pattern(255, {}, 15, 0), 20), FrameHead(Pattern(0, {}, 0, 0), 3),
           << 255 >>, << 0 >> }

\* ------------------------------------------------------------------------
\* State
\* ------------------------------------------------------------------------
VARIABLES
    buffer,   \* StreamingParser.buffer
    pos,      \* StreamingParser.pos
    stats,    \* StreamingParser.stats
    ret,      \* what the last push_byte call returned
    pre,      \* the last call: its name, its byte, and pos/stats/buffer before it
    out,      \* the packets and errors returned so far, each with the count
              \* of bytes pushed when it was returned
    input,    \* the bytes the caller has for the parser, in order
    segs,     \* the segments input is made of: [start, len, tag], with the
              \* parser's buffer, pos and stats when the segment's first
              \* byte came
    fed,      \* how many bytes of input have been pushed
    resets,   \* reset() calls so far
    iter,     \* the StreamingIterator in use: the chunk it was given
              \* (input[start + 1 .. start + len]) and its index
    ref,      \* a second parser, given the same bytes one push_byte at a
              \* time: its buffer, pos, stats, and the items it returned
    packed,   \* the channels and flag byte the frame being fed was packed
              \* from, when the caller packed it
    legacy    \* the SBusPacketParser given the same input: its buffer and
              \* what its try_parse calls returned

vars == << buffer, pos, stats, ret, pre, out, input, segs, fed, resets,
           iter, ref, packed, legacy >>

\* no frame has been packed
NoPack == [channels |-> << >>, flags |-> 0]
\* SBusPacketParser::new()
NewLegacy == [buffer |-> << >>, pushed |-> 0, rets |-> << >>]

NoIter == [active |-> FALSE, start |-> 0, len |-> 0, index |-> 0]

\* the second parser after one more push_byte
RefPush(r, byte) ==
    LET n == PushByte(r.buffer, r.pos, r.stats, byte)
    IN  [buffer |-> n.buffer, pos |-> n.pos, stats |-> n.stats,
         fed |-> r.fed + 1,
         out |-> IF n.ret.kind = "None" THEN r.out
                 ELSE Append(r.out, [at |-> r.fed + 1, ret |-> n.ret])]

\* the second parser after push_byte of input[r.fed + 1 .. upto], in order
RECURSIVE RefRun(_, _)
RefRun(r, upto) ==
    IF r.fed >= upto THEN r ELSE RefRun(RefPush(r, input[r.fed + 1]), upto)

NewCall == [op |-> "new", byte |-> 0, pos |-> 0, stats |-> NewStats,
            buffer |-> NewBuffer]

\* StreamingParser::new()
InitParser ==
    /\ buffer = NewBuffer
    /\ pos = 0
    /\ stats = NewStats
    /\ ret = RetNone
    /\ pre = NewCall
    /\ out = << >>
    /\ fed = 0
    /\ resets = 0
    /\ iter = NoIter
    /\ ref = [buffer |-> NewBuffer, pos |-> 0, stats |-> NewStats, fed |-> 0,
              out |-> << >>]
    /\ packed = NoPack
    /\ legacy = NewLegacy

Init ==
    /\ InitParser
    /\ input = << >>
    /\ segs = << >>

\* one push_byte(byte) call and what the caller records of it
DoPush(byte) ==
    LET r == PushByte(buffer, pos, stats, byte)
    IN  /\ buffer' = r.buffer
        /\ pos' = r.pos
        /\ stats' = r.stats
        /\ ret' = r.ret
        /\ pre' = [op |-> "push_byte", byte |-> byte, pos |-> pos,
                   stats |-> stats, buffer |-> buffer]
        /\ fed' = fed + 1
        /\ out' = IF r.ret.kind = "None" THEN out
                  ELSE Append(out, [at |-> fed + 1, ret |-> r.ret])
        /\ ref' = RefPush(ref, byte)
        /\ UNCHANGED << iter, packed, legacy >>

\* push_byte with the next byte of the segment being fed
Feed ==
    /\ ~iter.active
    /\ fed < Len(input)
    /\ DoPush(input[fed + 1])
    /\ UNCHANGED << input, segs, resets >>

\* push_byte with the first byte of a new segment s
ArriveWith(s, tag) ==
    /\ ~iter.active
    /\ fed = Len(input)
    /\ input' = input \o s
    /\ segs' = Append(segs, [start |-> fed + 1, len |-> Len(s), tag |-> tag,
                             buffer |-> buffer, pos |-> pos, stats |-> stats])
    /\ DoPush(s[1])
    /\ UNCHANGED resets

Arrive ==
    /\ Len(segs) < MaxSegs
    /\ \E s \in GenSegments : ArriveWith(s, "any")

\* reset(), called between two segments
ResetCall ==
    /\ fed = Len(input)
    /\ resets < MaxResets
    /\ pos' = Reset(pos)
    /\ pre' = [op |-> "reset", byte |-> 0, pos |-> pos, stats |-> stats,
               buffer |-> buffer]
    /\ resets' = resets + 1
    /\ ret' = RetNone
    /\ ref' = [ref EXCEPT !.pos = Reset(@)]
    /\ UNCHANGED << buffer, stats, out, input, segs, fed, iter, packed, legacy >>

Next == Feed \/ Arrive \/ ResetCall

Spec == Init /\ [][Next]_vars

\* ------------------------------------------------------------------------
\* push_bytes: an input fixed at the start and cut into chunks
\* ------------------------------------------------------------------------
\* sequences of 1 .. n segments
RECURSIVE SegSeqs(_, _)
SegSeqs(S, n) ==
    IF n = 0 THEN { << >> }
    ELSE LET shorter == SegSeqs(S, n - 1)
         IN  shorter \cup { Append(q, s) : q \in shorter, s \in S }

RECURSIVE Concat(_)
Concat(q) == IF q = << >> THEN << >> ELSE q[1] \o Concat(SubSeq(q, 2, Len(q)))

\* [start, len] of each segment of q (buffer, pos and stats are recorded
\* only by ArriveWith)
RECURSIVE SegsOf(_, _)
SegsOf(q, at) ==
    IF q = << >> THEN << >>
    ELSE << [start |-> at + 1, len |-> Len(q[1]), tag |-> "any",
             buffer |-> NewBuffer, pos |-> 0, stats |-> NewStats] >>
         \o SegsOf(SubSeq(q, 2, Len(q)), at + Len(q[1]))

\* the segments the input of SpecIter is made of
IterSegments ==
    { Pattern(0, {12}, 0, 0), Pattern(255, {7, 12}, 0, 255),
      Pattern(0, {5}, 255, 0) }

InitIter ==
    /\ InitParser
    /\ \E q \in SegSeqs(IterSegments, MaxIterSegs) \ { << >> } :
          /\ input = Concat(q)
          /\ segs = SegsOf(q, 0)

\* push_bytes(data), data being the next n bytes of the input: the iterator
\* is created, nothing is pushed
PushBytesCall ==
    /\ ~iter.active
    /\ \E n \in 1 .. (Len(input) - fed) :
          iter' = [active |-> TRUE, start |-> fed, len |-> n, index |-> 0]
    /\ pre' = [op |-> "push_bytes", byte |-> 0, pos |-> pos, stats |-> stats,
               buffer |-> buffer]
    /\ UNCHANGED << buffer, pos, stats, ret, out, input, segs, fed, resets, ref,
                    packed, legacy >>

\* one next() call on the iterator; when it returns None the caller's loop
\* ends and the iterator is dropped
IterNextCall ==
    /\ iter.active
    /\ LET data == SubSeq(input, iter.start + 1, iter.start + iter.len)
           r == IterNext(buffer, pos, stats, data, iter.index)
           done == r.item.kind = "None"
       IN  /\ buffer' = r.buffer
           /\ pos' = r.pos
           /\ stats' = r.stats
           /\ ret' = r.item
           /\ fed' = iter.start + r.index
           /\ out' = IF done THEN out
                     ELSE Append(out, [at |-> iter.start + r.index, ret |-> r.item])
           /\ iter' = IF done THEN NoIter ELSE [iter EXCEPT !.index = r.index]
           /\ ref' = RefRun(ref, IF done THEN iter.start + iter.len
                                 ELSE iter.start + r.index)
    /\ pre' = [op |-> "next", byte |-> 0, pos |-> pos, stats |-> stats,
               buffer |-> buffer]
    /\ UNCHANGED << input, segs, resets, packed, legacy >>

NextIter == PushBytesCall \/ IterNextCall \/ Feed

SpecIter == InitIter /\ [][NextIter]_vars

\* ------------------------------------------------------------------------
\* push_bytes with an iterator that is dropped before it has returned None
\* ------------------------------------------------------------------------
\* an iterator has been dropped: the input is what the parser is given, the
\* bytes the dropped iterator had not reached taken out
Cut == segs # << >> /\ segs[1].tag = "cut"

\* the iterator is dropped (StreamingIterator has no Drop code: nothing
\* runs); the bytes of its chunk it has not reached are not given to the
\* parser by any later call. The caller drops one iterator in a run.
DropCall ==
    /\ iter.active
    /\ ~Cut
    /\ LET kept == SubSeq(input, 1, fed)
                     \o SubSeq(input, iter.start + iter.len + 1, Len(input))
       IN  /\ input' = kept
           /\ segs' = << [start |-> 1, len |-> Len(kept), tag |-> "cut",
                          buffer |-> NewBuffer, pos |-> 0, stats |-> NewStats] >>
    /\ iter' = NoIter
    /\ pre' = [op |-> "drop", byte |-> 0, pos |-> pos, stats |-> stats,
               buffer |-> buffer]
    /\ UNCHANGED << buffer, pos, stats, ret, out, fed, resets, ref, packed,
                    legacy >>

\* push_bytes, until an iterator has been dropped; the bytes after it go
\* through push_byte
LazyPushBytesCall == ~Cut /\ PushBytesCall

NextLazy == LazyPushBytesCall \/ IterNextCall \/ DropCall \/ Feed

SpecLazy == InitIter /\ [][NextLazy]_vars

\* ------------------------------------------------------------------------
\* Scenarios: a corrupted frame followed by valid frames; a mid-stream
\* start; noise between frames; valid frames after anything
\* ------------------------------------------------------------------------
\* valid frames: payload of 0x00 or 0xFF bytes, with or without a header
\* value inside, no flag or all four flags (0x0F) set
ScenFrames ==
    { Pattern(fill, hs, flag, SBUS_FOOTER) :
        fill \in {0, 255}, hs \in {{}, {12}}, flag \in {0, 15} }

\* the values a corrupted last byte takes
CorruptVals == {255, 15, 1}

\* frame with its last byte replaced by v
Corrupt(s, v) == [s EXCEPT ![SBUS_FRAME_LENGTH] = v]

InitScen ==
    /\ InitParser
    /\ input = << >>
    /\ segs = << >>

\* a valid frame with a corrupted last byte is fed to the new parser
ArriveCorrupted ==
    /\ Len(segs) = 0
    /\ \E a \in ScenFrames, v \in CorruptVals :
          ArriveWith(Corrupt(a, v), "corrupted")

\* then two valid frames
ArriveFollowing ==
    /\ Len(segs) \in {1, 2}
    /\ \E b \in ScenFrames : ArriveWith(b, "frame")

NextCorrupted == Feed \/ ArriveCorrupted \/ ArriveFollowing

SpecCorrupted == InitScen /\ [][NextCorrupted]_vars

\* a new parser is started partway through a valid frame: frame[k..25]
ArriveMidFrame ==
    /\ Len(segs) = 0
    /\ \E f \in ScenFrames, k \in 1 .. (SBUS_FRAME_LENGTH - 1) :
          ArriveWith(FrameTail(f, k), "tail")

\* then a complete valid frame
ArriveComplete ==
    /\ Len(segs) = 1
    /\ \E g \in ScenFrames : ArriveWith(g, "frame")

NextMidStream == Feed \/ ArriveMidFrame \/ ArriveComplete

SpecMidStream == InitScen /\ [][NextMidStream]_vars

\* runs of noise: no byte of a run is the header value
NoiseRuns ==
    { << 255 >>, << 0 >>, << 0, 255 >>, << 255, 170, 85, 0 >> }

\* a noise run or a valid frame is fed
ArriveNoise ==
    /\ Len(segs) < MaxNoiseSegs
    /\ \E s \in NoiseRuns : ArriveWith(s, "noise")

ArriveValid ==
    /\ Len(segs) < MaxNoiseSegs
    /\ \E g \in ScenFrames : ArriveWith(g, "frame")

NextNoise == Feed \/ ArriveNoise \/ ArriveValid

SpecNoise == InitScen /\ [][NextNoise]_vars

\* the segments with the given tag
Tagged(tag) == { j \in 1 .. Len(segs) : segs[j].tag = tag }

\* the valid frames that follow in SpecRecover
CleanFrames ==
    { Pattern(0, {}, 0, 0), Pattern(255, {}, 0, 0), Pattern(0, {12}, 0, 0),
      Pattern(255, {}, 15, 0) }

\* anything is fed first: frames valid or not, partial frames, noise
ArrivePrefix ==
    /\ Tagged("clean") = {}
    /\ Len(segs) < MaxPrefix
    /\ \E s \in GenSegments : ArriveWith(s, "any")

\* from some point on the input is valid frames back-to-back
ArriveClean ==
    /\ Cardinality(Tagged("clean")) < MaxClean
    /\ \E g \in CleanFrames : ArriveWith(g, "clean")

NextRecover == Feed \/ ArrivePrefix \/ ArriveClean

SpecRecover == InitScen /\ [][NextRecover]_vars

\* ------------------------------------------------------------------------
\* reset() between segments: the first segment fed after a reset is tagged
\* "fresh"
\* ------------------------------------------------------------------------
ArriveAround ==
    /\ Len(segs) < MaxResetSegs
    /\ \E s \in GenSegments :
          ArriveWith(s, IF pre.op = "reset" THEN "fresh" ELSE "any")

NextReset == Feed \/ ArriveAround \/ ResetCall

SpecReset == InitScen /\ [][NextReset]_vars

\* ------------------------------------------------------------------------
\* A parser that has been running for long: its counters are at u32::MAX or
\* close below it
\* ------------------------------------------------------------------------
\* the counters of such a parser; a resynchronization discards at least one
\* byte, so bytes_discarded is not below sync_losses
SatStats ==
    { [frames_decoded |-> BelowMax(f), sync_losses |-> BelowMax(d),
       bytes_discarded |-> BelowMax(d)] : f \in {0, 1}, d \in {0, 1, NearMax} }

\* it is between two frames, and the caller starts recording
InitSaturate ==
    /\ buffer = NewBuffer
    /\ pos = 0
    /\ stats \in SatStats
    /\ ret = RetNone
    /\ pre = [NewCall EXCEPT !.stats = stats]
    /\ out = << >>
    /\ fed = 0
    /\ resets = 0
    /\ iter = NoIter
    /\ ref = [buffer |-> NewBuffer, pos |-> 0, stats |-> stats, fed |-> 0,
              out |-> << >>]
    /\ packed = NoPack
    /\ legacy = NewLegacy
    /\ input = << >>
    /\ segs = << >>

\* a valid frame, a frame with a corrupted footer, a frame with reserved
\* flag bits set, or a noise byte is fed
SatSegments ==
    { Pattern(0, {12}, 0, 0), Pattern(255, {7, 12}, 0, 255),
      Pattern(0, {5}, 255, 0), << 255 >> }

ArriveSaturate ==
    /\ Len(segs) < MaxSatSegs
    /\ \E s \in SatSegments : ArriveWith(s, "any")

NextSaturate ==
    Feed \/ ArriveSaturate \/ ResetCall \/ PushBytesCall \/ IterNextCall

SpecSaturate == InitSaturate /\ [][NextSaturate]_vars

\* ------------------------------------------------------------------------
\* A frame is packed and fed to a new parser
\* ------------------------------------------------------------------------
\* channel values: the ends of the range, the middle, the two alternating
\* bit patterns, and the value of the tests
ChannelValues == {0, 1, 682, 1000, 1023, 1024, 1365, CHANNEL_MAX}

\* channel arrays: all channels the same value; the patterns of the tests
\* (sequential, mid-range, alternating 0 and CHANNEL_MAX); and arrays where
\* one channel differs from the fifteen others
ChannelArrays ==
    { [i \in 1 .. CHANNEL_COUNT |-> v] : v \in ChannelValues }
    \cup { [i \in 1 .. CHANNEL_COUNT |-> i - 1],
           [i \in 1 .. CHANNEL_COUNT |-> 999 + i],
           [i \in 1 .. CHANNEL_COUNT |-> IF i % 2 = 1 THEN 0 ELSE CHANNEL_MAX] }
    \cup { [i \in 1 .. CHANNEL_COUNT |-> IF i = k THEN v ELSE CHANNEL_MAX - v] :
             k \in 1 .. CHANNEL_COUNT, v \in {0, 1, 1024, CHANNEL_MAX} }

\* flag bytes with bits 4..7 clear
FlagBytes == 0 .. (FLAG_RESERVED - 1)

\* pack(channels, flags): the frame becomes the caller's input
PackCall ==
    /\ input = << >>
    /\ \E c \in ChannelArrays, f \in FlagBytes :
          /\ packed' = [channels |-> c, flags |-> f]
          /\ input' = Pack(c, f)
          /\ segs' = SegsOf(<< Pack(c, f) >>, 0)
    /\ UNCHANGED << buffer, pos, stats, ret, pre, out, fed, resets, iter, ref,
                    legacy >>

NextCodec == PackCall \/ Feed

SpecCodec == Init /\ [][NextCodec]_vars

\* ------------------------------------------------------------------------
\* A frame with any flag byte is given to both parsers
\* ------------------------------------------------------------------------
\* the channel arrays of the frames: create_frame(100), the frame of the
\* tests of lib.rs, and an array of sixteen different values
FlagChannelArrays ==
    { [i \in 1 .. CHANNEL_COUNT |-> 100],
      [i \in 1 .. CHANNEL_COUNT |-> 1024],
      [i \in 1 .. CHANNEL_COUNT |-> CHANNEL_MAX - 100 * (i - 1)] }

\* a frame is packed and its byte 23 set to any byte
PackAnyFlags ==
    /\ input = << >>
    /\ \E c \in FlagChannelArrays, f \in 0 .. 255 :
          /\ packed' = [channels |-> c, flags |-> f]
          /\ input' = Pack(c, f)
          /\ segs' = SegsOf(<< Pack(c, f) >>, 0)
    /\ UNCHANGED << buffer, pos, stats, ret, pre, out, fed, resets, iter, ref,
                    legacy >>

\* once the StreamingParser has had the frame, the SBusPacketParser is given
\* it in one push_bytes call
LegacyPushPacked ==
    /\ input # << >> /\ fed = Len(input)
    /\ legacy.pushed = 0
    /\ legacy' = [legacy EXCEPT !.buffer = LegacyPushBytes(@, input),
                                !.pushed = Len(input)]
    /\ UNCHANGED << buffer, pos, stats, ret, pre, out, input, segs, fed, resets,
                    iter, ref, packed >>

\* ------------------------------------------------------------------------
\* SBusPacketParser: push_bytes and try_parse calls
\* ------------------------------------------------------------------------
\* what is pushed in one push_bytes call: the frame of the tests of lib.rs
\* (all channels 1024), two other valid frames, that frame with byte 0
\* replaced by 0x00, a frame with reserved flag bits set, a noise byte
LegacySegments ==
    { Pack([i \in 1 .. CHANNEL_COUNT |-> 1024], 0),
      Pack([i \in 1 .. CHANNEL_COUNT |-> 100 * (i - 1)], 5),
      Pattern(0, {12}, 10, 0),
      [Pack([i \in 1 .. CHANNEL_COUNT |-> 1024], 0) EXCEPT ![1] = 0],
      Pattern(0, {5}, 255, 0),
      << 85 >> }

\* parser.push_bytes(bytes)
LegacyPushBytesCall ==
    /\ Len(segs) < MaxLegacySegs
    /\ \E s \in LegacySegments :
          /\ input' = input \o s
          /\ segs' = Append(segs, [start |-> Len(input) + 1, len |-> Len(s),
                                   tag |-> "any", buffer |-> buffer,
                                   pos |-> pos, stats |-> stats])
          /\ legacy' = [legacy EXCEPT !.buffer = LegacyPushBytes(@, s),
                                      !.pushed = @ + Len(s)]
    /\ UNCHANGED << buffer, pos, stats, ret, pre, out, fed, resets, iter, ref,
                    packed >>

\* parser.try_parse(); the caller notes what it returned and how many bytes
\* it had pushed by then
TryParseCall ==
    /\ Len(legacy.rets) < MaxTryParse
    /\ LET r == TryParse(legacy.buffer)
       IN  legacy' = [legacy EXCEPT
                        !.buffer = r.buffer,
                        !.rets = Append(@, [at |-> legacy.pushed, ret |-> r.ret])]
    /\ UNCHANGED << buffer, pos, stats, ret, pre, out, input, segs, fed, resets,
                    iter, ref, packed >>

NextLegacy == LegacyPushBytesCall \/ TryParseCall

SpecLegacy == Init /\ [][NextLegacy]_vars

\* a frame with any flag byte, given to both parsers
NextFlags == PackAnyFlags \/ Feed \/ LegacyPushPacked \/ TryParseCall

SpecFlags == Init /\ [][NextFlags]_vars

\* ------------------------------------------------------------------------
\* SBusPacketParser: push_byte, push_bytes and try_parse calls, with frames
\* that start with the head byte and are not valid
\* ------------------------------------------------------------------------
\* what is pushed in one push_bytes call: the frame of the tests of lib.rs,
\* a frame with reserved flag bits set, a frame with the last byte corrupted
StuckSegments ==
    { Pack([i \in 1 .. CHANNEL_COUNT |-> 1024], 0),
      Pattern(0, {5}, 255, 0),
      Pattern(0, {12}, 0, 255) }

\* parser.push_bytes(bytes)
StuckPushBytesCall ==
    /\ Cardinality(Tagged("bytes")) < MaxStuckSegs
    /\ \E s \in StuckSegments :
          /\ input' = input \o s
          /\ segs' = Append(segs, [start |-> Len(input) + 1, len |-> Len(s),
                                   tag |-> "bytes", buffer |-> buffer,
                                   pos |-> pos, stats |-> stats])
          /\ legacy' = [legacy EXCEPT !.buffer = LegacyPushBytes(@, s),
                                      !.pushed = @ + Len(s)]
    /\ UNCHANGED << buffer, pos, stats, ret, pre, out, fed, resets, iter, ref,
                    packed >>

\* parser.push_byte(byte)
LegacyPushByteCall ==
    /\ Cardinality(Tagged("byte")) < MaxStuckBytes
    /\ \E b \in {HEAD_BYTE, 85} :
          /\ input' = Append(input, b)
          /\ segs' = Append(segs, [start |-> Len(input) + 1, len |-> 1,
                                   tag |-> "byte", buffer |-> buffer,
                                   pos |-> pos, stats |-> stats])
          /\ legacy' = [legacy EXCEPT !.buffer = LegacyPushByte(@, b),
                                      !.pushed = @ + 1]
    /\ UNCHANGED << buffer, pos, stats, ret, pre, out, fed, resets, iter, ref,
                    packed >>

NextStuck == StuckPushBytesCall \/ LegacyPushByteCall \/ TryParseCall

SpecStuck == Init /\ [][NextStuck]_vars

\* ------------------------------------------------------------------------
\* Any sequence of push_byte, push_bytes and reset calls
\* ------------------------------------------------------------------------
\* the segments the caller of SpecCalls feeds: a valid frame, a frame with a
\* corrupted footer, a frame with reserved flag bits set (each with header
\* values in its payload, the second right after its header), the first 14
\* bytes of a frame, and a noise byte
CallSegments ==
    { Pattern(0, {12}, 0, 0), Pattern(255, {1, 12}, 0, 255),
      Pattern(0, {5}, 255, 0), FrameHead(Pattern(255, {12}, 0, 0), 14),
      << 255 >> }

\* the first byte of a new segment is pushed with push_byte; the rest goes
\* through push_byte (Feed), or in chunks through push_bytes
ArriveCall ==
    /\ Len(segs) < MaxCallSegs
    /\ \E s \in CallSegments : ArriveWith(s, "any")

NextCalls == Feed \/ ArriveCall \/ ResetCall \/ PushBytesCall \/ IterNextCall

SpecCalls == Init /\ [][NextCalls]_vars

\* ------------------------------------------------------------------------
\* Failed accumulations with and without a header value inside
\* ------------------------------------------------------------------------
\* the segments of Spec, and frames with a corrupted footer and no header
\* value after index 0
LossSegments ==
    GenSegments \cup { Pattern(255, {}, 0, 255), Pattern(0, {}, 0, 1) }

ArriveLoss ==
    /\ Len(segs) < MaxLossSegs
    /\ \E s \in LossSegments : ArriveWith(s, "any")

NextLoss == Feed \/ ArriveLoss \/ ResetCall

SpecLoss == Init /\ [][NextLoss]_vars

\* ------------------------------------------------------------------------
\* What the caller sees of the last call
\* ------------------------------------------------------------------------
\* the last call was push_byte
Pushed == pre.op = "push_byte"
\* the buffer as the last push_byte call filled it, before any decode or resync
Filled == [pre.buffer EXCEPT ![pre.pos] = pre.byte]
\* the segment being fed, its bytes, and how many of them have been pushed
CurSeg == segs[Len(segs)]
SegBytes(k) == SubSeq(input, segs[k].start, segs[k].start + segs[k].len - 1)
SegFed(k) == IF fed >= segs[k].start + segs[k].len THEN segs[k].len
             ELSE fed - segs[k].start + 1
SegEnd(k) == segs[k].start + segs[k].len - 1

\* segment k is a whole valid frame
ValidSeg(k) == IsValidFrame(SegBytes(k))

\* ------------------------------------------------------------------------
\* C1. The 25 bytes of a valid frame pushed one at a time into a parser
\* whose cursor is 0: each of the first 24 pushes returns Ok(None), the 25th
\* returns the packet decoded from exactly those bytes; then the cursor is
\* 0, frames_decoded is one more and sync_losses and bytes_discarded are as
\* before the frame. Valid frames fed back-to-back to a new parser yield one
\* packet each, in frame order.
\* ------------------------------------------------------------------------
C1_ValidFrameDecodes ==
    /\ (Len(segs) > 0 /\ Pushed /\ CurSeg.pos = 0 /\ ValidSeg(Len(segs))) =>
          LET n == SegFed(Len(segs))
          IN  IF n < SBUS_FRAME_LENGTH
              THEN /\ ret = RetNone
                   /\ pos = n
                   /\ stats = CurSeg.stats
              ELSE /\ ret = RetPacket(Decode(SegBytes(Len(segs))))
                   /\ pos = 0
                   /\ stats.frames_decoded = Plus(CurSeg.stats.frames_decoded, 1)
                   /\ stats.sync_losses = CurSeg.stats.sync_losses
                   /\ stats.bytes_discarded = CurSeg.stats.bytes_discarded
    /\ (\A k \in 1 .. Len(segs) : ValidSeg(k)) =>
          out = [k \in 1 .. (fed \div SBUS_FRAME_LENGTH) |->
                    [at |-> SegEnd(k), ret |-> RetPacket(Decode(SegBytes(k)))]]

\* the third of three valid frames fed back-to-back has just been decoded,
\* and it is not the same frame as the second
C1_Witness ==
    /\ Len(segs) = 3 /\ \A k \in 1 .. 3 : ValidSeg(k)
    /\ fed = 3 * SBUS_FRAME_LENGTH
    /\ Pushed /\ ret.kind = "Packet"
    /\ SegBytes(2) # SegBytes(3)
    /\ Len(out) = 3
    /\ out[2].ret # out[3].ret

\* ------------------------------------------------------------------------
\* C2. Chunk/byte equivalence: however the input is cut into chunks, the
\* chunks fed through push_bytes and drained give the same items (packets
\* and errors, at the same bytes, in the same order) and leave the parser in
\* the same state (buffer, cursor, counters) as the same bytes fed one at a
\* time through push_byte.
\* ------------------------------------------------------------------------
C2_ChunkByteEquivalence ==
    /\ fed = ref.fed
    /\ out = ref.out
    /\ buffer = ref.buffer
    /\ pos = ref.pos
    /\ stats = ref.stats

\* a chunk that ended inside a frame has been drained, and the next chunk
\* has yielded the second item of the run after an error
C2_Witness ==
    /\ pre.op = "next" /\ iter.active
    /\ iter.start % SBUS_FRAME_LENGTH # 0
    /\ Len(out) = 2
    /\ out[1].ret.kind = "Err" /\ out[2].ret.kind = "Packet"

\* the packets among the items returned so far
Packets(o) == SelectSeq(o, LAMBDA it : it.ret.kind = "Packet")
\* no byte of s after its first is the header value
NoInnerHeader(s) == \A n \in 2 .. Len(s) : s[n] # SBUS_HEADER
\* the item a valid frame gives when it is decoded on its own last byte
OwnItem(k) == [at |-> SegEnd(k), ret |-> RetPacket(Decode(SegBytes(k)))]
\* all three segments of SpecCorrupted have been fed
CorruptedRunDone == Len(segs) = 3 /\ fed = 3 * SBUS_FRAME_LENGTH

\* ------------------------------------------------------------------------
\* C3 as stated: a valid frame A with its last byte replaced by any
\* non-footer value, then valid frames B and C: exactly two packets are
\* yielded, the decode of B followed by the decode of C.
\* ------------------------------------------------------------------------
C3_FollowersDecoded ==
    CorruptedRunDone =>
        /\ Len(Packets(out)) = 2
        /\ Packets(out)[1].ret.packet = Decode(SegBytes(2))
        /\ Packets(out)[2].ret.packet = Decode(SegBytes(3))

\* C3 amended: when the corrupted span holds no header value after its
\* first byte (neither in A's bytes 1..23 nor as the replaced last byte),
\* exactly two items are yielded: the decode of B on B's last byte, then the
\* decode of C on C's last byte.
C3_FollowersDecodedNoInnerHeader ==
    (CorruptedRunDone /\ NoInnerHeader(SegBytes(1))) =>
        out = << OwnItem(2), OwnItem(3) >>

\* such a run has ended, B and C being different frames that hold a header
\* value in their payload
C3_Witness ==
    /\ CorruptedRunDone /\ NoInnerHeader(SegBytes(1))
    /\ SegBytes(2) # SegBytes(3)
    /\ ~NoInnerHeader(SegBytes(2)) /\ ~NoInnerHeader(SegBytes(3))
    /\ Len(out) = 2
    /\ stats.frames_decoded = U32(2)

\* ------------------------------------------------------------------------
\* C4. A valid frame A with its last byte corrupted to 0xFF, then valid
\* frames B and C (75 bytes): exactly 2 packets are decoded, never 3, and
\* sync_losses ends at 1 or more.
\* ------------------------------------------------------------------------
C4_TwoPacketsAfterCorruption ==
    (Len(segs) >= 1 /\ SegBytes(1)[SBUS_FRAME_LENGTH] = 255) =>
        /\ Len(Packets(out)) <= 2
        /\ stats.frames_decoded = U32(Len(Packets(out)))
        /\ CorruptedRunDone =>
              /\ Len(Packets(out)) = 2
              /\ stats.sync_losses # U32(0)

\* such a run has ended with a first packet that is not the decode of B: the
\* resynchronization kept a header value of A's payload
C4_Witness ==
    /\ CorruptedRunDone /\ SegBytes(1)[SBUS_FRAME_LENGTH] = 255
    /\ Len(Packets(out)) = 2
    /\ Packets(out)[1].ret.packet # Decode(SegBytes(2))
    /\ stats.sync_losses # U32(0)

RECURSIVE NoiseFed(_)
NoiseFed(k) ==
    IF k = 0 THEN 0
    ELSE NoiseFed(k - 1) + (IF segs[k].tag = "noise" THEN SegFed(k) ELSE 0)
\* the items of the valid frames among segments 1..k that are complete
RECURSIVE FrameItems(_)
FrameItems(k) ==
    IF k = 0 THEN << >>
    ELSE FrameItems(k - 1) \o
         (IF segs[k].tag = "frame" /\ SegFed(k) = segs[k].len
          THEN << OwnItem(k) >> ELSE << >>)

\* ------------------------------------------------------------------------
\* C8. A new parser fed noise runs without the header value and valid
\* frames, in any alternation: nothing is yielded during a noise run, each
\* valid frame yields exactly one packet, on its last byte, bytes_discarded
\* is the number of noise bytes fed and sync_losses stays 0.
\* ------------------------------------------------------------------------
C8_NoiseBetweenFrames ==
    /\ out = FrameItems(Len(segs))
    /\ stats.bytes_discarded = U32(NoiseFed(Len(segs)))
    /\ stats.sync_losses = U32(0)
    /\ stats.frames_decoded = U32(Len(out))

\* noise, a frame, noise again: the 4-byte run of the test, then one packet
C8_Witness ==
    /\ Len(segs) = 3
    /\ segs[1].tag = "noise" /\ segs[1].len = 4
    /\ segs[2].tag = "frame" /\ segs[3].tag = "noise"
    /\ fed = Len(input)
    /\ Len(out) = 1 /\ out[1].at = 4 + SBUS_FRAME_LENGTH
    /\ stats.bytes_discarded = U32(4 + segs[3].len)

\* the first of the valid frames of SpecRecover
FirstClean == Min(Tagged("clean"))
\* segment k and the one before are the same valid frame, k is complete and
\* was not yielded, and the parser is where it was when k started
StuckOn(k) ==
    /\ k - 1 \in Tagged("clean") /\ k \in Tagged("clean")
    /\ SegBytes(k) = SegBytes(k - 1)
    /\ fed = SegEnd(k)
    /\ \A n \in 1 .. Len(out) : out[n] # OwnItem(k)
    /\ pos # 0
    /\ buffer = segs[k].buffer /\ pos = segs[k].pos

\* the items of the complete valid frames among segments from..k
RECURSIVE CleanItems(_, _)
CleanItems(from, k) ==
    IF k < from THEN << >>
    ELSE CleanItems(from, k - 1) \o
         (IF SegFed(k) = segs[k].len THEN << OwnItem(k) >> ELSE << >>)

\* ------------------------------------------------------------------------
\* C6 as stated: from every reachable state, when the input continues with
\* valid frames back-to-back, the parser comes to yield those frames; it
\* never stays aligned for good on a position that is not a frame start.
\* push_byte's effect on buffer and pos depends on buffer, pos and the byte
\* alone, so a parser that is given the same frame again, has not yielded
\* it, and is back in the buffer and pos it had one frame earlier, is
\* aligned on a position inside the frame for as long as that frame
\* repeats: the claim says no such state is reached.
\* ------------------------------------------------------------------------
C6_NeverStuck == \A k \in 2 .. Len(segs) : ~StuckOn(k)

\* C6 amended: when none of the valid frames that follow holds the header
\* value in its bytes 1..23, then from every reachable state the parser is
\* at a frame boundary with cursor 0 when the first of them ends, and every
\* later one is yielded, decoded, on its own last byte, with nothing else
\* yielded in between.
C6_RecoversWithinOneFrame ==
    (Tagged("clean") # {}
       /\ \A k \in Tagged("clean") : NoInnerHeader(SegBytes(k))
       /\ fed >= SegEnd(FirstClean)) =>
        /\ pos = (fed - SegEnd(FirstClean)) % SBUS_FRAME_LENGTH
        /\ SelectSeq(out, LAMBDA it : it.at > SegEnd(FirstClean))
             = CleanItems(FirstClean + 1, Len(segs))

\* the valid frames came while the parser was inside an accumulation, the
\* first of them was not yielded, the second one has just been
C6_Witness ==
    /\ Cardinality(Tagged("clean")) = 2
    /\ \A k \in Tagged("clean") : NoInnerHeader(SegBytes(k))
    /\ segs[FirstClean].pos > 0
    /\ fed = Len(input)
    /\ \A n \in 1 .. Len(out) : out[n] # OwnItem(FirstClean)
    /\ ret = OwnItem(Len(segs)).ret

\* ------------------------------------------------------------------------
\* C7. Header gating: a push_byte of a byte other than the header into a
\* parser whose cursor is 0 returns Ok(None), adds exactly 1 to
\* bytes_discarded and leaves the cursor at 0 and the buffer,
\* frames_decoded and sync_losses as they were; so a run of such bytes never
\* yields a packet or an error.
\* ------------------------------------------------------------------------
C7_HeaderGating ==
    (Pushed /\ pre.pos = 0 /\ pre.byte # SBUS_HEADER) =>
        /\ ret = RetNone
        /\ pos = 0
        /\ buffer = pre.buffer
        /\ stats.bytes_discarded = Plus(pre.stats.bytes_discarded, 1)
        /\ stats.frames_decoded = pre.stats.frames_decoded
        /\ stats.sync_losses = pre.stats.sync_losses

\* a second noise byte in a row is discarded by a parser that has already
\* decoded a frame
C7_Witness ==
    /\ Pushed /\ pre.pos = 0 /\ pre.byte # SBUS_HEADER
    /\ stats.frames_decoded = U32(1)
    /\ Len(segs) = 3 /\ segs[2].len = 1 /\ segs[3].len = 1
    /\ stats.bytes_discarded = U32(2)

\* ------------------------------------------------------------------------
\* C9. When the push that fills the buffer stores a last byte other than
\* the footer, push_byte resynchronizes and returns Ok(None): no error is
\* returned and frames_decoded is unchanged.
\* ------------------------------------------------------------------------
C9_FooterMismatchIsSilent ==
    (Pushed /\ pre.pos = SBUS_FRAME_LENGTH - 1 /\ pre.byte # SBUS_FOOTER) =>
        /\ ret = RetNone
        /\ stats.frames_decoded = pre.stats.frames_decoded
        /\ stats.sync_losses = Plus(pre.stats.sync_losses, 1)
        /\ pos < SBUS_FRAME_LENGTH
        /\ stats.bytes_discarded =
               Plus(pre.stats.bytes_discarded, SBUS_FRAME_LENGTH - pos)

\* a span with a corrupted footer has just been completed
C9_Witness ==
    /\ Pushed /\ pre.pos = SBUS_FRAME_LENGTH - 1 /\ pre.byte = 255
    /\ ret = RetNone
    /\ stats.sync_losses = U32(1)

\* ------------------------------------------------------------------------
\* C10 as stated: a fully buffered span whose last byte is not the footer
\* is returned to the caller as an InvalidFooter error.
\* ------------------------------------------------------------------------
C10_FooterMismatchSurfaced ==
    (Pushed /\ pre.pos = SBUS_FRAME_LENGTH - 1 /\ pre.byte # SBUS_FOOTER) =>
        (ret.kind = "Err" /\ ret.err.name = "InvalidFooter")

\* C10 amended: push_byte returns an error only for a fully buffered span
\* whose last byte IS the footer and whose flag byte has a reserved bit set;
\* a span whose last byte is not the footer never becomes an error.
C10_OnlyReservedBitsSurface ==
    ret.kind = "Err" =>
        /\ Pushed
        /\ pre.pos = SBUS_FRAME_LENGTH - 1
        /\ pre.byte = SBUS_FOOTER
        /\ Filled[FLAG_INDEX] \div FLAG_RESERVED # 0
        /\ ret.err.name = "InvalidFooter"

\* an error has just been returned
C10_Witness ==
    /\ ret.kind = "Err"
    /\ Pushed /\ pre.byte = SBUS_FOOTER

\* ------------------------------------------------------------------------
\* C11. When the push that fills the buffer stores the footer value and the
\* buffered flag byte has one of bits 4..7 set, push_byte returns Err with
\* the codec's error, frames_decoded is unchanged, sync_losses is one more,
\* and the buffer and cursor are those resynchronization leaves: the bytes
\* from the first header value after index 0 moved to the front, or cursor
\* 0 when there is none.
\* ------------------------------------------------------------------------
C11_ReservedBitsError ==
    (Pushed /\ pre.pos = SBUS_FRAME_LENGTH - 1 /\ pre.byte = SBUS_FOOTER
       /\ Filled[FLAG_INDEX] \div FLAG_RESERVED # 0) =>
        LET rs == Resync(Filled, SBUS_FRAME_LENGTH, pre.stats)
        IN  /\ ret = RetErr(FromArray(Filled).err)
            /\ stats.frames_decoded = pre.stats.frames_decoded
            /\ stats.sync_losses = Plus(pre.stats.sync_losses, 1)
            /\ buffer = rs.buffer
            /\ pos = rs.pos
            /\ pos < SBUS_FRAME_LENGTH
            /\ stats.bytes_discarded =
                   Plus(pre.stats.bytes_discarded, SBUS_FRAME_LENGTH - pos)

\* such a span has just been rejected, and resynchronization kept the bytes
\* from a header value inside it
C11_Witness ==
    /\ Pushed /\ pre.pos = SBUS_FRAME_LENGTH - 1 /\ pre.byte = SBUS_FOOTER
    /\ Filled[FLAG_INDEX] \div FLAG_RESERVED # 0
    /\ ret.kind = "Err"
    /\ pos > 0 /\ buffer[0] = SBUS_HEADER
    /\ stats.sync_losses = U32(1)

\* ------------------------------------------------------------------------
\* C12. No sequence of push_byte, push_bytes and reset calls returns the
\* error InvalidHeader: whenever a filled buffer passes the footer test and
\* is handed to the codec, its byte 0 is the header value.
\* ------------------------------------------------------------------------
C12_NeverInvalidHeader ==
    /\ ret.err.name # "InvalidHeader"
    /\ \A n \in 1 .. Len(out) : out[n].ret.err.name # "InvalidHeader"
    /\ (Pushed /\ pre.pos = SBUS_FRAME_LENGTH - 1 /\ pre.byte = SBUS_FOOTER) =>
           Filled[0] = SBUS_HEADER

\* after a reset, a chunk given to push_bytes has yielded the codec's other
\* error, and a packet after it
C12_Witness ==
    /\ resets = 1
    /\ pre.op = "next"
    /\ Len(out) = 2
    /\ out[1].ret.kind = "Err" /\ out[1].ret.err.name = "InvalidFooter"
    /\ out[2].ret.kind = "Packet"

\* ------------------------------------------------------------------------
\* C19. In every state between calls (after new and after any push_byte,
\* push_bytes/next and reset), a cursor greater than 0 means buffer[0] is
\* the header value.
\* ------------------------------------------------------------------------
C19_AccumulationStartsWithHeader ==
    pos > 0 => buffer[0] = SBUS_HEADER

\* a resynchronization has just moved a header value from inside the
\* rejected span, other than its byte 1, to the front of the buffer
C19_Witness ==
    /\ Pushed /\ pre.pos = SBUS_FRAME_LENGTH - 1
    /\ stats.sync_losses = Plus(pre.stats.sync_losses, 1)
    /\ pos > 0 /\ pos < SBUS_FRAME_LENGTH - 1
    /\ buffer[0] = SBUS_HEADER
    /\ resets = 1

\* ------------------------------------------------------------------------
\* C20. In every state between calls the cursor is in 0 .. 24. The push
\* that fills the buffer leaves the cursor at 0 (decode, or resync without a
\* header) or at 25 - k, k >= 1 being the index of the first header value
\* after index 0 of the filled buffer; every other push into an
\* accumulation writes buffer[cursor] inside the buffer and moves the cursor
\* on by one.
\* ------------------------------------------------------------------------
C20_CursorInBuffer ==
    /\ pos \in BufIdx
    /\ (Pushed /\ pre.pos = SBUS_FRAME_LENGTH - 1) =>
          \/ pos = 0
          \/ \E k \in 1 .. (SBUS_FRAME_LENGTH - 1) :
                /\ pos = SBUS_FRAME_LENGTH - k
                /\ Filled[k] = SBUS_HEADER
                /\ \A j \in 1 .. (k - 1) : Filled[j] # SBUS_HEADER
    /\ (Pushed /\ pre.pos > 0 /\ pre.pos < SBUS_FRAME_LENGTH - 1) =>
          /\ pre.pos \in DOMAIN pre.buffer
          /\ pos = pre.pos + 1
          /\ buffer = Filled

\* the push that filled the buffer has left the cursor at 24: the rejected
\* span had a header value at index 1
C20_Witness ==
    /\ Pushed /\ pre.pos = SBUS_FRAME_LENGTH - 1
    /\ pos = SBUS_FRAME_LENGTH - 1
    /\ Filled[1] = SBUS_HEADER

\* the items the iterator in use has yielded
ChunkItems == { n \in 1 .. Len(out) : out[n].at > iter.start }

\* ------------------------------------------------------------------------
\* C13. Draining the iterator returned by push_bytes(data) terminates: the
\* index never passes len(data), a next() call that yields an item has
\* moved the index on by at least one byte and leaves the iterator usable,
\* also when the item is an Err, and a next() call that yields None has
\* pushed all of data; so there are at most len(data) items, then None. The
\* bytes are pushed once each, in order: the parser is in the state of one
\* given the same bytes by push_byte, after every call.
\* ------------------------------------------------------------------------
C13_DrainTerminates ==
    /\ [](iter.active =>
            /\ iter.index <= iter.len
            /\ fed = iter.start + iter.index
            /\ Cardinality(ChunkItems) <= iter.index
            /\ \A n \in ChunkItems : out[n].at <= iter.start + iter.index)
    /\ []( /\ ref.fed = fed
           /\ ref.buffer = buffer /\ ref.pos = pos /\ ref.stats = stats )
    /\ [][ (iter.active /\ pre'.op = "next") =>
             IF ret'.kind = "None"
             THEN /\ ~iter'.active
                  /\ fed' = iter.start + iter.len
                  /\ out' = out
             ELSE /\ iter'.active
                  /\ iter'.index > iter.index
                  /\ iter'.index <= iter.len
                  /\ out' = Append(out, [at |-> fed', ret |-> ret']) ]_vars

\* one chunk holding the whole input has yielded an error and, from the
\* bytes after the erroring byte, a packet; bytes of the chunk are left
C13_Witness ==
    /\ iter.active /\ iter.start = 0 /\ iter.len = Len(input)
    /\ iter.index < iter.len
    /\ Len(out) = 2
    /\ out[1].ret.kind = "Err" /\ out[2].ret.kind = "Packet"
    /\ out[1].at < out[2].at

\* the first segment fed after the last reset
LastFresh == CHOOSE k \in Tagged("fresh") : \A j \in Tagged("fresh") : j <= k
\* a newly created parser given the bytes fed since the last reset
FreshParser ==
    RefRun([buffer |-> NewBuffer, pos |-> 0, stats |-> NewStats,
            fed |-> segs[LastFresh].start - 1, out |-> << >>], fed)

\* ------------------------------------------------------------------------
\* C14. reset() sets the cursor to 0 and leaves the three counters (and the
\* buffer) as they were. After a reset, whatever the buffer holds, the
\* parser returns for the bytes that follow what a newly created parser
\* returns for them: the same items on the same bytes, the same cursor and
\* accumulated bytes, and counters that grow by what the new parser counts.
\* ------------------------------------------------------------------------
C14_ResetIsFreshStart ==
    /\ pre.op = "reset" =>
          /\ pos = 0
          /\ stats = pre.stats
          /\ buffer = pre.buffer
    /\ (resets > 0 /\ Cardinality(Tagged("fresh")) = resets) =>
          LET at0 == segs[LastFresh].start - 1
              st0 == segs[LastFresh].stats
              f == FreshParser
          IN  /\ SelectSeq(out, LAMBDA it : it.at > at0) = f.out
              /\ pos = f.pos
              /\ \A i \in 0 .. (pos - 1) : buffer[i] = f.buffer[i]
              /\ stats.frames_decoded =
                     Plus(st0.frames_decoded, f.stats.frames_decoded.lo)
              /\ stats.sync_losses =
                     Plus(st0.sync_losses, f.stats.sync_losses.lo)
              /\ stats.bytes_discarded =
                     Plus(st0.bytes_discarded, f.stats.bytes_discarded.lo)

\* a frame with a corrupted footer left an accumulation with a header value
\* inside it; reset dropped it, uncounted, and the valid frame fed next has
\* been decoded on its last byte
C14_Witness ==
    /\ resets = 1 /\ Tagged("fresh") = {2}
    /\ segs[1].len = SBUS_FRAME_LENGTH /\ input[SBUS_FRAME_LENGTH] = 255
    /\ segs[2].buffer[5] = SBUS_HEADER
    /\ segs[2].pos = 0
    /\ segs[2].stats.bytes_discarded = U32(7)
    /\ ValidSeg(2)
    /\ fed = SegEnd(2)
    /\ ret = OwnItem(2).ret
    /\ stats.bytes_discarded = U32(7)

\* ------------------------------------------------------------------------
\* C15. No push_byte, push_bytes/next or reset call makes frames_decoded,
\* sync_losses or bytes_discarded smaller: the counters are 32-bit values
\* updated by saturating additions, and one that is at 2^32 - 1 stays
\* there.
\* ------------------------------------------------------------------------
C15_CountersNeverDecrease ==
    /\ [](\A c \in DOMAIN stats : Leq(stats[c], U32_MAX))
    /\ [][ \A c \in DOMAIN stats :
             /\ Leq(stats[c], stats'[c])
             /\ stats[c] = U32_MAX => stats'[c] = U32_MAX ]_vars

\* frames_decoded was at u32::MAX when a frame was decoded and is still
\* there; then a resynchronization has taken bytes_discarded from below
\* u32::MAX to u32::MAX, the exact sum being larger
C15_Witness ==
    /\ Len(out) = 1 /\ out[1].ret.kind = "Packet"
    /\ stats.frames_decoded = U32_MAX
    /\ Pushed /\ pre.pos = SBUS_FRAME_LENGTH - 1 /\ ret.kind = "None"
    /\ pre.stats.bytes_discarded # U32_MAX
    /\ stats.bytes_discarded = U32_MAX
    /\ ~Leq(Plus(pre.stats.bytes_discarded, SBUS_FRAME_LENGTH - pos), U32_MAX)
    /\ stats.sync_losses = Plus(pre.stats.sync_losses, 1)

\* the four flags a flag byte with bits 4..7 clear stands for
FlagsOf(f) ==
    [d1         |-> f \in {1, 3, 5, 7, 9, 11, 13, 15},
     d2         |-> f \in {2, 3, 6, 7, 10, 11, 14, 15},
     frame_lost |-> f \in {4, 5, 6, 7, 12, 13, 14, 15},
     failsafe   |-> f \in 8 .. 15]
\* the four flags of a packet
PacketFlags(pk) ==
    [d1 |-> pk.d1, d2 |-> pk.d2, frame_lost |-> pk.frame_lost,
     failsafe |-> pk.failsafe]

\* ------------------------------------------------------------------------
\* C16. Codec round trip: unpacking the frame packed from 16 channel values
\* in 0..2047 and a flag byte with bits 4..7 clear gives those 16 values
\* and the four flag bits of that byte; and the packed frame pushed into a
\* parser with cursor 0 yields, on its last byte, a packet with the packed
\* channels.
\* ------------------------------------------------------------------------
C16_RoundTrip ==
    packed # NoPack =>
        LET u == FromArray(AsBuffer(input))
        IN  /\ input = Pack(packed.channels, packed.flags)
            /\ u.ok
            /\ u.packet.channels = packed.channels
            /\ PacketFlags(u.packet) = FlagsOf(packed.flags)
            /\ fed < SBUS_FRAME_LENGTH => out = << >>
            /\ fed = SBUS_FRAME_LENGTH =>
                  /\ ret.kind = "Packet"
                  /\ ret.packet.channels = packed.channels
                  /\ PacketFlags(ret.packet) = FlagsOf(packed.flags)
                  /\ out = << [at |-> SBUS_FRAME_LENGTH, ret |-> ret] >>

\* an array whose channel 5 alone is 0 among channels at CHANNEL_MAX, its
\* bits lying in three bytes of the frame, has come back from the parser
\* with frame_lost and d1 set
C16_Witness ==
    /\ packed # NoPack
    /\ packed.channels[6] = 0 /\ packed.channels[7] = CHANNEL_MAX
    /\ packed.flags = 5
    /\ fed = SBUS_FRAME_LENGTH
    /\ ret.kind = "Packet"
    /\ ret.packet.channels[6] = 0 /\ ret.packet.channels[5] = CHANNEL_MAX
    /\ ret.packet.frame_lost /\ ret.packet.d1

\* ------------------------------------------------------------------------
\* C18. SBusPacketParser: after two valid frames have been pushed into an
\* empty parser (50 bytes), two try_parse calls in a row both return a
\* packet, the first decoded from the first frame and the second from the
\* second frame. When 25 bytes whose first is not the head byte have been
\* pushed into an empty parser, try_parse returns None.
\* ------------------------------------------------------------------------
C18_LegacyConsecutivePackets ==
    /\ (Len(segs) >= 2 /\ ValidSeg(1) /\ ValidSeg(2)
          /\ Len(legacy.rets) >= 1 /\ legacy.rets[1].at = 2 * PACKET_SIZE) =>
          /\ legacy.rets[1].ret = RetPacket(Decode(SegBytes(1)))
          /\ (Len(legacy.rets) >= 2 /\ legacy.rets[2].at = 2 * PACKET_SIZE) =>
                legacy.rets[2].ret = RetPacket(Decode(SegBytes(2)))
    /\ (Len(segs) >= 1 /\ segs[1].len = PACKET_SIZE /\ input[1] # HEAD_BYTE) =>
          \A n \in 1 .. Len(legacy.rets) :
             legacy.rets[n].at = PACKET_SIZE => legacy.rets[n].ret = RetNone

\* two different valid frames were pushed and the two calls returned their
\* two packets; the footer of the second frame is what the buffer is left
\* with
C18_Witness ==
    /\ Len(segs) = 2 /\ ValidSeg(1) /\ ValidSeg(2)
    /\ Len(legacy.rets) = 2
    /\ legacy.rets[1].at = 2 * PACKET_SIZE /\ legacy.rets[2].at = 2 * PACKET_SIZE
    /\ legacy.rets[1].ret.kind = "Packet" /\ legacy.rets[2].ret.kind = "Packet"
    /\ legacy.rets[1].ret # legacy.rets[2].ret
    /\ legacy.rets[2].ret.packet.channels[16] = 1500
    /\ legacy.buffer = << FOOT_BYTE >>

\* ------------------------------------------------------------------------
\* C17. For every accepted frame the decoded flags are the low four bits of
\* byte 23, each on its own: d1 bit 0, d2 bit 1, frame_lost bit 2, failsafe
\* bit 3. Each of the 16 flag bytes with bits 4..7 clear is accepted and
\* decodes to its four booleans, and the decoded channels are those packed,
\* whatever the flag byte. This holds for the packet push_byte returns and
\* for the packet try_parse returns.
\* ------------------------------------------------------------------------
C17_FlagBits ==
    /\ (Pushed /\ ret.kind = "Packet") =>
          /\ packed.flags \in FlagBytes
          /\ PacketFlags(ret.packet) = FlagsOf(packed.flags)
          /\ ret.packet.channels = packed.channels
    /\ (fed = SBUS_FRAME_LENGTH /\ packed.flags \in FlagBytes) =>
          ret.kind = "Packet"
    /\ \A n \in 1 .. Len(legacy.rets) :
          /\ legacy.rets[n].ret.kind = "Packet" =>
                /\ packed.flags \in FlagBytes
                /\ PacketFlags(legacy.rets[n].ret.packet) = FlagsOf(packed.flags)
                /\ legacy.rets[n].ret.packet.channels = packed.channels
          /\ (n = 1 /\ legacy.rets[n].at = PACKET_SIZE
                /\ packed.flags \in FlagBytes) =>
                legacy.rets[n].ret.kind = "Packet"

\* a frame with d2 and failsafe set, and sixteen different channel values,
\* has been decoded by both parsers
C17_Witness ==
    /\ packed.flags = 10
    /\ packed.channels[1] # packed.channels[2]
    /\ fed = SBUS_FRAME_LENGTH /\ ret.kind = "Packet"
    /\ ret.packet.d2 /\ ret.packet.failsafe
    /\ ~ret.packet.d1 /\ ~ret.packet.frame_lost
    /\ Len(legacy.rets) = 1
    /\ legacy.rets[1].ret = ret

\* the push that filled the buffer failed: the last byte is not the footer, or
\* the codec rejected the span
FullFailed ==
    /\ Pushed /\ pre.pos = SBUS_FRAME_LENGTH - 1
    /\ (Filled[SBUS_FRAME_LENGTH - 1] # SBUS_FOOTER \/ ~FromArray(Filled).ok)
\* the indices 1..24 of the filled buffer that hold the header value
HeaderHits == { i \in 1 .. (SBUS_FRAME_LENGTH - 1) : Filled[i] = SBUS_HEADER }

\* ------------------------------------------------------------------------
\* C21. Resync with a header present: when a full 25-byte accumulation
\* fails and some index in 1..24 of the buffer holds 0x0F, with k the
\* smallest such index, after the call buffer[0 .. 25-k) holds the former
\* buffer[k .. 25) in the same order, the cursor is 25 - k, bytes_discarded
\* has grown by exactly k and sync_losses by exactly 1.
\* ------------------------------------------------------------------------
C21_ResyncWithHeader ==
    (FullFailed /\ HeaderHits # {}) =>
        LET k == Min(HeaderHits)
        IN  /\ \A j \in 0 .. (SBUS_FRAME_LENGTH - k - 1) : buffer[j] = Filled[k + j]
            /\ pos = SBUS_FRAME_LENGTH - k
            /\ stats.bytes_discarded = Plus(pre.stats.bytes_discarded, k)
            /\ stats.sync_losses = Plus(pre.stats.sync_losses, 1)
            /\ stats.frames_decoded = pre.stats.frames_decoded
            /\ ret.kind # "Packet"

\* a span with a corrupted footer and header values at indices 7 and 12 has
\* just been rejected: the 18 bytes from index 7 are kept
C21_Witness ==
    /\ FullFailed
    /\ HeaderHits = {7, 12}
    /\ pos = SBUS_FRAME_LENGTH - 7
    /\ buffer[0] = SBUS_HEADER /\ buffer[5] = SBUS_HEADER
    /\ buffer[pos - 1] = 255
    /\ stats.bytes_discarded = Plus(pre.stats.bytes_discarded, 7)

\* ------------------------------------------------------------------------
\* C22. Resync with no header present: when a full 25-byte accumulation
\* fails and no index in 1..24 of the buffer holds 0x0F, the cursor becomes
\* 0, bytes_discarded grows by exactly 25 and sync_losses by exactly 1.
\* sync_losses changes in no other situation: it grows by exactly 1 in a
\* call that fails a full accumulation, and is unchanged by every other
\* call, in particular by a push that discards a byte while seeking the
\* header, and by reset.
\* ------------------------------------------------------------------------
C22_ResyncWithoutHeader ==
    /\ (FullFailed /\ HeaderHits = {}) =>
          /\ pos = 0
          /\ stats.bytes_discarded =
                 Plus(pre.stats.bytes_discarded, SBUS_FRAME_LENGTH)
          /\ stats.sync_losses = Plus(pre.stats.sync_losses, 1)
          /\ stats.frames_decoded = pre.stats.frames_decoded
    /\ FullFailed => stats.sync_losses = Plus(pre.stats.sync_losses, 1)
    /\ ~FullFailed => stats.sync_losses = pre.stats.sync_losses
    /\ (Pushed /\ pre.pos = 0 /\ pre.byte # SBUS_HEADER) =>
          /\ stats.bytes_discarded = Plus(pre.stats.bytes_discarded, 1)
          /\ stats.sync_losses = pre.stats.sync_losses

\* a second span with a corrupted footer and no header value inside has just
\* been rejected whole, after a noise byte was discarded
C22_Witness ==
    /\ FullFailed /\ HeaderHits = {}
    /\ pos = 0
    /\ stats.sync_losses = U32(2)
    /\ stats.bytes_discarded = U32(2 * SBUS_FRAME_LENGTH + 1)
    /\ stats.frames_decoded = U32(0)

\* the last n bytes pushed, in order
LastPushed(n) == SubSeq(input, fed - n + 1, fed)
\* buffer[0 .. n) as a sequence
Accumulated(n) == [j \in 1 .. n |-> buffer[j - 1]]

\* ------------------------------------------------------------------------
\* C23. As long as reset is not called, in every state between calls the
\* accumulated bytes buffer[0 .. cursor) are exactly the last `cursor` bytes
\* pushed, in order. So every packet returned is the decode of the 25
\* consecutive bytes of the input that end at the byte just pushed, and a
\* resynchronization leaves in the buffer the bytes pushed after the
\* discarded prefix, none reordered, altered or dropped.
\* ------------------------------------------------------------------------
C23_BufferIsInputSuffix ==
    resets = 0 =>
        /\ pos <= fed
        /\ Accumulated(pos) = LastPushed(pos)
        /\ \A n \in 1 .. Len(out) :
              out[n].ret.kind = "Packet" =>
                 /\ out[n].at >= SBUS_FRAME_LENGTH
                 /\ out[n].ret.packet =
                       Decode(SubSeq(input, out[n].at - SBUS_FRAME_LENGTH + 1,
                                     out[n].at))

\* no reset; a resynchronization kept bytes of the first segment, bytes of
\* the second were accumulated after them, and a packet was then decoded
\* from 25 bytes that lie across the two segments
C23_Witness ==
    /\ resets = 0
    /\ Len(segs) = 2
    /\ Leq(U32(1), stats.sync_losses)
    /\ \E n \in 1 .. Len(out) :
          /\ out[n].ret.kind = "Packet"
          /\ out[n].at - SBUS_FRAME_LENGTH + 1 < segs[2].start
          /\ out[n].at >= segs[2].start

\* ------------------------------------------------------------------------
\* C24. Byte accounting: for a parser created by new and driven only by
\* push_byte and push_bytes/next (no reset, counters far from u32::MAX),
\* after every call the number of bytes pushed so far equals
\* 25 * frames_decoded + bytes_discarded + cursor. So successful decodes
\* are at least 25 pushes apart, the first not before the 25th push.
\* ------------------------------------------------------------------------
C24_ByteAccounting ==
    resets = 0 =>
        /\ fed = SBUS_FRAME_LENGTH * Value(stats.frames_decoded)
                   + Value(stats.bytes_discarded) + pos
        /\ Len(Packets(out)) = Value(stats.frames_decoded)
        /\ \A n \in 1 .. Len(Packets(out)) :
              Packets(out)[n].at >= n * SBUS_FRAME_LENGTH
        /\ \A n \in 2 .. Len(Packets(out)) :
              Packets(out)[n].at - Packets(out)[n - 1].at >= SBUS_FRAME_LENGTH

\* no reset; of 50 bytes pushed, 25 went into a decoded frame, some were
\* discarded by a resynchronization, and the others are held in the buffer
C24_Witness ==
    /\ resets = 0
    /\ stats.frames_decoded = U32(1)
    /\ stats.sync_losses = U32(1)
    /\ Value(stats.bytes_discarded) > 0
    /\ pos > 0
    /\ fed = 2 * SBUS_FRAME_LENGTH

\* ------------------------------------------------------------------------
\* C25. The iterator returned by push_bytes is lazy: creating it pushes no
\* byte, and a next() call pushes the bytes of the chunk only up to and
\* including the first one whose push returns a packet or an error. When
\* the iterator is dropped before it has returned None, the bytes of the
\* chunk it has not reached are never pushed: the drop changes no counter
\* and leaves the buffer and cursor as the last next() call left them, and
\* the parser is, then and after later pushes, in the state of one given by
\* push_byte exactly the bytes that were reached and the later ones.
\* ------------------------------------------------------------------------
C25_LazyIterator ==
    /\ pre.op = "push_bytes" =>
          /\ buffer = pre.buffer /\ pos = pre.pos /\ stats = pre.stats
          /\ iter.index = 0 /\ fed = iter.start
    /\ iter.active => fed = iter.start + iter.index
    /\ (pre.op = "next" /\ ret.kind # "None") =>
          /\ out # << >>
          /\ out[Len(out)] = [at |-> fed, ret |-> ret]
          /\ \A n \in 1 .. (Len(out) - 1) : out[n].at < fed
    /\ pre.op = "drop" =>
          /\ buffer = pre.buffer /\ pos = pre.pos /\ stats = pre.stats
          /\ ~iter.active
    /\ fed = ref.fed /\ out = ref.out
    /\ buffer = ref.buffer /\ pos = ref.pos /\ stats = ref.stats

\* an iterator was dropped with bytes of its chunk not reached, after an
\* item had been returned; the bytes after the chunk, pushed since, have
\* given a packet
C25_Witness ==
    /\ Cut
    /\ Len(input) < 2 * SBUS_FRAME_LENGTH
    /\ Pushed /\ ret.kind = "Packet"
    /\ Len(out) >= 2
    /\ out[Len(out)].at = fed

\* the queue holds at least 25 bytes, the first is the head byte, and the
\* first 25 are not a valid frame
Stuck(lb) ==
    /\ Len(lb) >= PACKET_SIZE
    /\ lb[1] = HEAD_BYTE
    /\ (lb[PACKET_SIZE] # FOOT_BYTE
          \/ BitAnd(lb[PACKET_SIZE - 1], FLAG_MASK) # 0)
\* the last call was try_parse
TryParsed == Len(legacy.rets') = Len(legacy.rets) + 1

\* ------------------------------------------------------------------------
\* C26. SBusPacketParser stuck state: when the buffer holds at least 25
\* bytes, its front byte is 0x0F and the first 25 bytes are not a valid frame
\* (byte 24 is not 0x00, or byte 23 has a bit of 0xF0 set), try_parse
\* returns None and removes no byte. push_byte drops the byte once 50 bytes
\* are buffered, and never touches the bytes already held. So from such a
\* state every push_byte, push_bytes and try_parse call leaves the first 25
\* buffered bytes as they are, the parser stays in such a state, and no
\* try_parse call returns a packet.
\* ------------------------------------------------------------------------
C26_LegacyStuck ==
    /\ [](Len(legacy.buffer) <= MAX_PACKET_SIZE)
    /\ [][ (Len(legacy.buffer) = MAX_PACKET_SIZE
              /\ legacy'.pushed > legacy.pushed) =>
                legacy'.buffer = legacy.buffer ]_vars
    /\ [][ Stuck(legacy.buffer) =>
             /\ Stuck(legacy'.buffer)
             /\ SubSeq(legacy'.buffer, 1, PACKET_SIZE)
                   = SubSeq(legacy.buffer, 1, PACKET_SIZE)
             /\ TryParsed =>
                   /\ legacy'.rets[Len(legacy'.rets)].ret = RetNone
                   /\ legacy'.buffer = legacy.buffer ]_vars

\* a packet was returned, then a frame with a wrong last byte or reserved
\* flag bits came to the front; the buffer has filled to 50 bytes behind it,
\* a byte pushed since was dropped, and the try_parse calls made after the
\* first have returned None
C26_Witness ==
    /\ Stuck(legacy.buffer)
    /\ Len(legacy.buffer) = MAX_PACKET_SIZE
    /\ legacy.pushed > MAX_PACKET_SIZE + PACKET_SIZE
    /\ Len(legacy.rets) = 3
    /\ legacy.rets[1].ret.kind = "Packet"
    /\ legacy.rets[2].ret = RetNone /\ legacy.rets[2].at = 2 * PACKET_SIZE
    /\ legacy.rets[3].ret = RetNone /\ legacy.rets[3].at = legacy.pushed

====
